---- MODULE Spec2Model ----
(***************************************************************************)
(* A model of the Sudoku class of sudoku_tools.py: the CSV loader          *)
(* (load_board_csv and its helpers) and the backtracking solver            *)
(* (backtrack and its nested, recursive process_board).                    *)
(*                                                                         *)
(* Coordinates are 0-based pairs <<row, col>> as in the source; TLA+       *)
(* sequences are 1-based, so cell <<x, y>> of a board b is b[x+1][y+1].    *)
(* The recursion of process_board is an explicit stack of frames.          *)
(***************************************************************************)
EXTENDS Integers, Sequences, FiniteSets, TLC

VARIABLES
    board,                  \* Sudoku.__board
    sudoku_N,               \* Sudoku.__sudoku_N
    subgrid_row_count,      \* Sudoku.__subgrid_row_count
    subgrid_column_count,   \* Sudoku.__subgrid_column_count
    subgrid_coordinates,    \* Sudoku.__subgrid_coordinates
    protected_coordinates,  \* Sudoku.__protected_coordinates
    stack,                  \* the frames of process_board, innermost last
    ret,                    \* the value a process_board frame has just returned
    result,                 \* the value the last backtrack() call returned
    load_status,            \* which return of load_board_csv the last call took
    loaded,                 \* history: the board as the last successful load stored it
    pre,                    \* history: the board when backtrack() was last called
    solves,                 \* history: the backtrack() calls since the last successful load
    req                     \* the load request under study (loader specification)

vars == <<board, sudoku_N, subgrid_row_count, subgrid_column_count,
          subgrid_coordinates, protected_coordinates, stack, ret, result,
          load_status, loaded, pre, solves, req>>

object == <<board, sudoku_N, subgrid_row_count, subgrid_column_count,
            subgrid_coordinates, protected_coordinates, loaded>>

\* A field that may be None holds <<>> for None and <<v>> for the value v.
None == <<>>

Some(v) == <<v>>

The(o) == o[1]

(***************************************************************************)
(* Bounds of the model.                                                    *)
(***************************************************************************)
\* Largest number of rows of a file loaded before solving.
MaxN == 4
\* Largest number of cells of such a file that differ from "0".
MaxGivens == 2
\* Largest number of rows of a file in the loader specification.
MaxLoadN == 6
\* Largest subgrid row count and subgrid column count passed to a load.
MaxDim == 3
\* Largest number of rows of a file loaded over an already loaded board.
MaxReloadN == 1
\* Largest number of backtrack() calls on one loaded board.
MaxSolves == 2

(***************************************************************************)
(* Text of a CSV cell: a sequence of characters.  int() of Python strips   *)
(* surrounding whitespace, takes an optional sign and then needs one or    *)
(* more decimal digits.                                                    *)
(***************************************************************************)
Digits == <<"0", "1", "2", "3", "4", "5", "6", "7", "8", "9">>

IsDigit(ch) == \E i \in 1..Len(Digits) : Digits[i] = ch

DigitVal(ch) == (CHOOSE i \in 1..Len(Digits) : Digits[i] = ch) - 1

RECURSIVE StripLeft(_)
StripLeft(s) == IF s # <<>> /\ Head(s) = " " THEN StripLeft(Tail(s)) ELSE s

RECURSIVE StripRight(_)
StripRight(s) ==
    IF s # <<>> /\ s[Len(s)] = " " THEN StripRight(SubSeq(s, 1, Len(s) - 1)) ELSE s

Strip(s) == StripRight(StripLeft(s))

Unsigned(s) == IF s # <<>> /\ Head(s) \in {"+", "-"} THEN Tail(s) ELSE s

\* int(text) does not raise ValueError.
IsIntLiteral(text) ==
    LET body == Unsigned(Strip(text))
    IN  /\ body # <<>>
        /\ \A i \in 1..Len(body) : IsDigit(body[i])

RECURSIVE DigitsVal(_)
DigitsVal(ds) ==
    IF ds = <<>> THEN 0
    ELSE 10 * DigitsVal(SubSeq(ds, 1, Len(ds) - 1)) + DigitVal(ds[Len(ds)])

\* int(text), for a text that int() accepts.
PyInt(text) ==
    LET s == Strip(text)
    IN  IF Head(s) = "-" THEN 0 - DigitsVal(Unsigned(s)) ELSE DigitsVal(Unsigned(s))

(***************************************************************************)
(* The inputs: files as the rows that                                      *)
(*   [row.strip("\n").split(",") for row in csv_file]                      *)
(* yields.  A file has n rows of n cells "0", except for a few edited      *)
(* cells and, possibly, a last row that is one cell longer.                *)
(***************************************************************************)
Zero == <<"0">>

NumericTokens == {<<"1">>, <<"2">>, <<"9">>}

SolveTokens == NumericTokens \cup {<<"x">>}

LoadTokens == NumericTokens \cup {<<"-", "1">>, <<" ", "3">>, <<"x">>, <<>>}

Coords(n) == (0..(n - 1)) \X (0..(n - 1))

Edits(n, toks) == [pos : Coords(n), tok : toks]

RECURSIVE EditSets(_, _, _)
EditSets(n, k, toks) ==
    IF k = 0 THEN {{}}
    ELSE LET prev == EditSets(n, k - 1, toks)
         IN  prev \cup
             { s \cup {e} : <<s, e>> \in
                 { p \in prev \X Edits(n, toks) :
                     \A f \in p[1] : f.pos # p[2].pos } }

CellText(x, y, edits) ==
    IF \E e \in edits : e.pos = <<x, y>>
    THEN (CHOOSE e \in edits : e.pos = <<x, y>>).tok
    ELSE Zero

File(n, ragged, edits) ==
    [i \in 1..n |->
        [j \in 1..(IF ragged /\ i = n THEN n + 1 ELSE n) |->
            CellText(i - 1, j - 1, edits)]]

Files(maxn, k, toks) ==
    UNION { { File(n, ragged, edits) :
                ragged \in (IF n = 0 THEN {FALSE} ELSE BOOLEAN),
                edits \in EditSets(n, k, toks) } : n \in 0..maxn }

\* The arguments of load_board_csv: found says whether open(path) succeeds,
\* rows is the content of the file then.
Requests(files) ==
    [found : {TRUE}, rows : files, r : 0..MaxDim, c : 0..MaxDim]
    \cup [found : {FALSE}, rows : {<<>>}, r : 0..MaxDim, c : 0..MaxDim]

\* The requests of a first load, of a load over a loaded board, and of the
\* loader specification: files of at most maxn rows and k edited cells.
FirstRequests(maxn, k) == Requests(Files(maxn, k, SolveTokens))

AgainRequests(maxn) == Requests(Files(maxn, 1, SolveTokens))

LoadRequests(maxn) == Requests(Files(maxn, 1, LoadTokens))

NoRequest == [found |-> FALSE, rows |-> <<>>, r |-> 0, c |-> 0]

(***************************************************************************)
(* load_board_csv and its helpers.                                         *)
(***************************************************************************)
\* __convert_grid_str_to_int: ok is its return value, grid the converted
\* grid (of use only when ok).
convert_grid_str_to_int(raw) ==
    [ok   |-> \A i \in 1..Len(raw) : \A j \in 1..Len(raw) : IsIntLiteral(raw[i][j]),
     grid |-> [i \in 1..Len(raw) |-> [j \in 1..Len(raw) |->
                  IF IsIntLiteral(raw[i][j]) THEN PyInt(raw[i][j]) ELSE raw[i][j]]]]

\* Position k (1-based) of a row-major walk over an n x n grid.
RowMajor(n, k) == <<(k - 1) \div n, (k - 1) % n>>

RECURSIVE ProtectedFrom(_, _)
ProtectedFrom(grid, k) ==
    IF k > Len(grid) * Len(grid) THEN <<>>
    ELSE LET co == RowMajor(Len(grid), k)
         IN  IF grid[co[1] + 1][co[2] + 1] # 0
             THEN <<co>> \o ProtectedFrom(grid, k + 1)
             ELSE ProtectedFrom(grid, k + 1)

\* __set_protected_coordinates: the tuple it stores.
set_protected_coordinates(grid) == ProtectedFrom(grid, 1)

\* The coordinates relative to a subgrid, in the order the source builds them.
sub_coords(r, c) == [m \in 1..(r * c) |-> <<(m - 1) \div c, (m - 1) % c>>]

\* A slip in __set_subgrid_coordinates: the strides of new_x and new_y taken
\* from the wrong dimension (i * subgrid_column_count, j * subgrid_row_count).
set_subgrid_coordinates_swapped(r, c) ==
    [k \in 1..(c * r) |->
        [m \in 1..(r * c) |->
            <<((k - 1) \div r) * c + sub_coords(r, c)[m][1],
              ((k - 1) % r) * r + sub_coords(r, c)[m][2]>>]]

\* __set_subgrid_coordinates: the list it stores.  Subgrid k is the one of
\* loop indices i = (k-1) div r (outer, over range(c)) and j = (k-1) mod r.
set_subgrid_coordinates(r, c) ==
    [k \in 1..(c * r) |->
        [m \in 1..(r * c) |->
            <<((k - 1) \div r) * r + sub_coords(r, c)[m][1],
              ((k - 1) % r) * c + sub_coords(r, c)[m][2]>>]]

\* A slip in load_board_csv: the cells converted before the subgrid
\* dimensions are checked.
load_return_cells_first(rq) ==
    IF ~rq.found THEN "NotFound"
    ELSE IF \E i \in 1..Len(rq.rows) : Len(rq.rows[i]) # Len(rq.rows) THEN "NotSquare"
    ELSE IF ~convert_grid_str_to_int(rq.rows).ok THEN "NonNumericCell"
    ELSE IF rq.r * rq.c # Len(rq.rows) THEN "InvalidSubgridConfig"
    ELSE "Loaded"

\* The return statement load_board_csv leaves by, named after the failure.
load_return(rq) ==
    IF ~rq.found THEN "NotFound"
    ELSE IF \E i \in 1..Len(rq.rows) : Len(rq.rows[i]) # Len(rq.rows) THEN "NotSquare"
    ELSE IF rq.r * rq.c # Len(rq.rows) THEN "InvalidSubgridConfig"
    ELSE IF ~convert_grid_str_to_int(rq.rows).ok THEN "NonNumericCell"
    ELSE "Loaded"

Failures == {"NotFound", "NotSquare", "InvalidSubgridConfig", "NonNumericCell"}

Idle == stack = <<>> /\ ret = None

load_board_csv(rq) ==
    /\ load_status' = load_return(rq)
    /\ result' = None
    /\ pre' = None
    /\ UNCHANGED <<stack, ret>>
    /\ IF load_return(rq) = "Loaded"
       THEN /\ protected_coordinates' =
                    set_protected_coordinates(convert_grid_str_to_int(rq.rows).grid)
            /\ board' = Some(convert_grid_str_to_int(rq.rows).grid)
            /\ sudoku_N' = Some(Len(rq.rows))
            /\ subgrid_row_count' = Some(rq.r)
            /\ subgrid_column_count' = Some(rq.c)
            /\ subgrid_coordinates' = Some(set_subgrid_coordinates(rq.r, rq.c))
            /\ loaded' = Some(convert_grid_str_to_int(rq.rows).grid)
            /\ solves' = 0
       ELSE UNCHANGED <<object, solves>>

(***************************************************************************)
(* The solver.                                                             *)
(***************************************************************************)
At(b, coord) == b[coord[1] + 1][coord[2] + 1]

Put(b, coord, v) == [b EXCEPT ![coord[1] + 1][coord[2] + 1] = v]

get_coord_from_index(index) == <<index \div The(sudoku_N), index % The(sudoku_N)>>

InSeq(x, s) == \E i \in 1..Len(s) : s[i] = x

\* __get_subgrid_from_coord: the first subgrid listing the coordinate; the
\* source falls off its loops and returns None when there is none.
get_subgrid_from_coord(coordinate) ==
    LET subs == The(subgrid_coordinates)
    IN  IF \E k \in 1..Len(subs) : InSeq(coordinate, subs[k])
        THEN Some(subs[CHOOSE k \in 1..Len(subs) :
                         /\ InSeq(coordinate, subs[k])
                         /\ \A l \in 1..(k - 1) : ~InSeq(coordinate, subs[l])])
        ELSE None

\* Iterating over the None of __get_subgrid_from_coord raises TypeError in
\* the source; here The(None) is an evaluation error.
validate_num_at_coord(num, coord) ==
    /\ \A i \in 0..(The(sudoku_N) - 1) :
          /\ num # At(The(board), <<coord[1], i>>)
          /\ num # At(The(board), <<i, coord[2]>>)
    /\ \A m \in 1..Len(The(get_subgrid_from_coord(coord))) :
          num # At(The(board), The(get_subgrid_from_coord(coord))[m])

Frame(index, b) == [current_index |-> index, d |-> 1, pc |-> "entry", entry |-> b]

Top == stack[Len(stack)]

Pop == SubSeq(stack, 1, Len(stack) - 1)

SetTop(f) == [stack EXCEPT ![Len(stack)] = f]

\* backtrack(), up to its call of process_board().
backtrack_call ==
    /\ Idle
    /\ solves < MaxSolves
    /\ solves' = solves + 1
    /\ pre' = board
    /\ load_status' = "none"
    /\ UNCHANGED <<object, ret, req>>
    /\ IF board = None \/ sudoku_N = None \/ subgrid_coordinates = None
       THEN /\ result' = Some(FALSE)
            /\ stack' = <<>>
       ELSE /\ result' = None
            /\ stack' = <<Frame(0, The(board))>>

\* process_board: the test of the index on entry.
process_entry ==
    /\ stack # <<>>
    /\ Top.pc = "entry"
    /\ IF Top.current_index >= The(sudoku_N) * The(sudoku_N)
       THEN /\ stack' = Pop
            /\ ret' = Some([val |-> TRUE, entry |-> Top.entry])
       ELSE /\ stack' = SetTop([Top EXCEPT !.pc = "loop"])
            /\ ret' = ret
    /\ UNCHANGED <<object, result, load_status, pre, solves, req>>

\* The index process_board recurses on after a placement at current_index.
next_index(current_index) ==
    IF InSeq(get_coord_from_index(current_index + 1), protected_coordinates)
    THEN current_index + 2
    ELSE current_index + 1

\* process_board: one turn of the loop over d, up to the recursive call.
process_try ==
    /\ stack # <<>>
    /\ Top.pc = "loop"
    /\ Top.d <= The(sudoku_N)
    /\ IF validate_num_at_coord(Top.d, get_coord_from_index(Top.current_index))
       THEN /\ board' = Some(Put(The(board), get_coord_from_index(Top.current_index),
                                 Top.d))
            /\ stack' = Append(SetTop([Top EXCEPT !.pc = "wait"]),
                               Frame(next_index(Top.current_index), The(board')))
       ELSE /\ board' = board
            /\ stack' = SetTop([Top EXCEPT !.d = @ + 1])
    /\ UNCHANGED <<sudoku_N, subgrid_row_count, subgrid_column_count,
                   subgrid_coordinates, protected_coordinates, loaded,
                   ret, result, load_status, pre, solves, req>>

\* process_board: the recursive call has returned.
process_resume ==
    /\ stack # <<>>
    /\ Top.pc = "wait"
    /\ ret # None
    /\ IF The(ret).val
       THEN /\ stack' = Pop
            /\ ret' = Some([val |-> TRUE, entry |-> Top.entry])
       ELSE /\ stack' = SetTop([Top EXCEPT !.d = @ + 1, !.pc = "loop"])
            /\ ret' = None
    /\ UNCHANGED <<object, result, load_status, pre, solves, req>>

\* process_board: the loop is over, the cell is reset and False returned.
process_fail ==
    /\ stack # <<>>
    /\ Top.pc = "loop"
    /\ Top.d > The(sudoku_N)
    /\ board' = Some(Put(The(board), get_coord_from_index(Top.current_index), 0))
    /\ stack' = Pop
    /\ ret' = Some([val |-> FALSE, entry |-> Top.entry])
    /\ UNCHANGED <<sudoku_N, subgrid_row_count, subgrid_column_count,
                   subgrid_coordinates, protected_coordinates, loaded,
                   result, load_status, pre, solves, req>>

\* backtrack(): the outermost process_board() has returned.
backtrack_return ==
    /\ stack = <<>>
    /\ ret # None
    /\ result' = Some(The(ret).val)
    /\ ret' = None
    /\ UNCHANGED <<object, stack, load_status, pre, solves, req>>

(***************************************************************************)
(* The object: loads and solves in any order.                              *)
(***************************************************************************)
Init ==
    /\ board = None
    /\ sudoku_N = None
    /\ subgrid_row_count = None
    /\ subgrid_column_count = None
    /\ subgrid_coordinates = None
    /\ protected_coordinates = <<>>
    /\ stack = <<>>
    /\ ret = None
    /\ result = None
    /\ load_status = "none"
    /\ loaded = None
    /\ pre = None
    /\ solves = 0
    /\ req = NoRequest

\* The calls are made one after the other (no threads): a load or a solve
\* starts when no call is in progress.
FirstLoad ==
    /\ Idle
    /\ board = None
    /\ \E rq \in FirstRequests(MaxN, MaxGivens) : load_board_csv(rq)
    /\ req' = req

Reload ==
    /\ Idle
    /\ board # None
    /\ \E rq \in AgainRequests(MaxReloadN) : load_board_csv(rq)
    /\ req' = req

Next ==
    \/ FirstLoad
    \/ Reload
    \/ backtrack_call
    \/ process_entry
    \/ process_try
    \/ process_resume
    \/ process_fail
    \/ backtrack_return

Spec == Init /\ [][Next]_vars

(***************************************************************************)
(* The loader on its own: one request, drawn at the start, on a new object.*)
(***************************************************************************)
LoadInit ==
    /\ board = None
    /\ sudoku_N = None
    /\ subgrid_row_count = None
    /\ subgrid_column_count = None
    /\ subgrid_coordinates = None
    /\ protected_coordinates = <<>>
    /\ stack = <<>>
    /\ ret = None
    /\ result = None
    /\ load_status = "none"
    /\ loaded = None
    /\ pre = None
    /\ solves = 0
    /\ req \in LoadRequests(MaxLoadN)

LoadNext == Idle /\ load_board_csv(req) /\ req' = req

LoadSpec == LoadInit /\ [][LoadNext]_vars

(***************************************************************************)
(* Vocabulary of the claims.                                               *)
(***************************************************************************)
Values(n) == 1..n

RowCells(n, x) == [m \in 1..n |-> <<x, m - 1>>]

ColumnCells(n, y) == [m \in 1..n |-> <<m - 1, y>>]

\* Every value 1..n is held by exactly one of the listed cells of b.
EachOnce(b, cells, n) ==
    \A v \in Values(n) :
        Cardinality({m \in 1..Len(cells) : At(b, cells[m]) = v}) = 1

\* b is a solved n x n Sudoku for the subgrids subs.
IsSolution(b, subs) ==
    /\ \A x \in 0..(Len(b) - 1) : EachOnce(b, RowCells(Len(b), x), Len(b))
    /\ \A y \in 0..(Len(b) - 1) : EachOnce(b, ColumnCells(Len(b), y), Len(b))
    /\ \A k \in 1..Len(subs) : EachOnce(b, subs[k], Len(b))

\* v, put at coordinate co of b, repeats no value of co's row, column or subgrid.
NoClash(b, subs, co, v) ==
    /\ \A i \in 0..(Len(b) - 1) : At(b, <<co[1], i>>) # v /\ At(b, <<i, co[2]>>) # v
    /\ \A k \in 1..Len(subs) :
          InSeq(co, subs[k]) => \A m \in 1..Len(subs[k]) : At(b, subs[k][m]) # v

\* Some assignment of 1..n to the empty cells of b, from the k-th cell on in
\* row-major order, makes b a solved Sudoku; the cells that are filled stay.
RECURSIVE CanComplete(_, _, _)
CanComplete(b, subs, k) ==
    IF k > Len(b) * Len(b) THEN IsSolution(b, subs)
    ELSE IF At(b, RowMajor(Len(b), k)) # 0 THEN CanComplete(b, subs, k + 1)
    ELSE \E v \in Values(Len(b)) :
            /\ NoClash(b, subs, RowMajor(Len(b), k), v)
            /\ CanComplete(Put(b, RowMajor(Len(b), k), v), subs, k + 1)

\* Some row of b holds the same non-zero value in two columns.
RowRepeatsGiven(b) ==
    \E x \in 0..(Len(b) - 1) : \E y1, y2 \in 0..(Len(b) - 1) :
        y1 < y2 /\ At(b, <<x, y1>>) # 0 /\ At(b, <<x, y1>>) = At(b, <<x, y2>>)

\* backtrack() has returned from its first call on the board as loaded.
FirstSolveDone == result # None /\ pre # None /\ pre = loaded

IsSquare(rows) == \A i \in 1..Len(rows) : Len(rows[i]) = Len(rows)

HasNonNumericCell(rows) ==
    \E i \in 1..Len(rows) : \E j \in 1..Len(rows[i]) : ~IsIntLiteral(rows[i][j])

\* The cells of sub are those of an r-row by c-column rectangle of the n x n board.
IsTile(sub, r, c, n) ==
    \E x0 \in 0..(n - 1), y0 \in 0..(n - 1) :
        /\ x0 + r <= n
        /\ y0 + c <= n
        /\ {sub[m] : m \in 1..Len(sub)} = (x0..(x0 + r - 1)) \X (y0..(y0 + c - 1))

(***************************************************************************)
(* The claims.                                                             *)
(***************************************************************************)
\* C1: in every state during and after backtrack(), every protected
\* coordinate holds the value it had when the board was loaded.
C1_GivensNeverWritten ==
    board # None =>
        \A i \in 1..Len(protected_coordinates) :
            At(The(board), protected_coordinates[i])
                = At(The(loaded), protected_coordinates[i])

\* C2: when backtrack() returns True, every row, column and subgrid of the
\* board holds each value 1..N exactly once.
C2_SuccessIsSolution ==
    result = Some(TRUE) => IsSolution(The(board), The(subgrid_coordinates))

\* C3: when process_board, at any depth, or backtrack() returns False, the
\* board equals, cell for cell, the board that invocation was entered with.
C3_FailureRestoresBoard ==
    /\ (ret # None /\ ~The(ret).val) => The(board) = The(ret).entry
    /\ (result = Some(FALSE) /\ pre # None) => board = pre

\* C4: backtrack() called on a fully and validly solved board returns True
\* and leaves every cell as it was.
C4_SolvedBoardIdempotent ==
    (result # None /\ pre # None /\ IsSolution(The(pre), The(subgrid_coordinates)))
        => (result = Some(TRUE) /\ board = pre)

\* C5: backtrack() returns False on a loaded board only when no assignment
\* to its empty cells, keeping the givens, solves it.
C5_FailureOnlyIfUnsolvable ==
    (FirstSolveDone /\ result = Some(FALSE))
        => ~CanComplete(The(loaded), The(subgrid_coordinates), 1)

\* C6: on a loaded board with two identical non-zero givens in one row,
\* backtrack() returns False.
C6_RepeatedGivenFails ==
    (FirstSolveDone /\ RowRepeatsGiven(The(loaded))) => result = Some(FALSE)

\* C7: after a successful load every cell of the board is in 0..N.
C7_CellsInRange ==
    load_status = "Loaded" =>
        \A x, y \in 0..(The(sudoku_N) - 1) :
            At(The(board), <<x, y>>) \in 0..The(sudoku_N)

\* C8: after a failed load no board is set, and a backtrack() called next
\* returns False without starting the search.
C8_FailedLoadLeavesNoBoard ==
    [][/\ load_status' \in Failures => board' = None
       /\ (load_status \in Failures /\ solves' = solves + 1)
             => (result' = Some(FALSE) /\ stack' = <<>>)]_vars

\* C9: after a successful load with subgrid dimensions r and c, r * c = N and
\* the subgrid map lists N subgrids, each an r-row by c-column tile of N
\* coordinates of the board, every coordinate being listed exactly once.
C9_SubgridsPartitionBoard ==
    load_status = "Loaded" =>
        LET n    == The(sudoku_N)
            r    == The(subgrid_row_count)
            c    == The(subgrid_column_count)
            subs == The(subgrid_coordinates)
        IN  /\ r * c = n
            /\ Len(subs) = n
            /\ \A k \in 1..Len(subs) : Len(subs[k]) = n /\ IsTile(subs[k], r, c, n)
            /\ \A co \in Coords(n) :
                  Cardinality({km \in (1..Len(subs)) \X (1..n) :
                                  subs[km[1]][km[2]] = co}) = 1

C9_Witness ==
    /\ load_status = "Loaded"
    /\ subgrid_row_count = Some(2)
    /\ subgrid_column_count = Some(3)

\* C10: a load fails by the first check, in the order not found, not square,
\* invalid subgrid configuration, non-numeric cell, that its input violates.
C10_FirstFailingCheckWins ==
    load_status # "none" =>
        /\ ~req.found => load_status = "NotFound"
        /\ (req.found /\ ~IsSquare(req.rows)) => load_status = "NotSquare"
        /\ (req.found /\ IsSquare(req.rows) /\ req.r * req.c # Len(req.rows))
              => load_status = "InvalidSubgridConfig"
        /\ (req.found /\ IsSquare(req.rows) /\ req.r * req.c = Len(req.rows)
                /\ HasNonNumericCell(req.rows))
              => load_status = "NonNumericCell"

C10_Witness ==
    /\ load_status = "InvalidSubgridConfig"
    /\ HasNonNumericCell(req.rows)

====
